---- MODULE Spec2Model ----
(***************************************************************************)
(* Model of the stably-ts contract validation engine                       *)
(* (validatePipeline, validateAction, createValidator in validation.ts)    *)
(* over the contract data model of contract.ts, and of the sequence        *)
(* generator of generate.ts.                                               *)
(*                                                                         *)
(* An optional field (`x?: T`) is modelled as a sequence of length 0       *)
(* (absent / undefined) or 1 (present, holding the value), so that an      *)
(* absent list and a present but empty list stay different values.         *)
(* An error string is modelled by the record of the template that built    *)
(* it and the values interpolated into it.                                 *)
(***************************************************************************)
EXTENDS Integers, Sequences, FiniteSets, TLC

VARIABLES contract, actions, action, pres, ares, rep

\* the caller's session: the snapshot taken before the calls, the first
\* result, the validator object and what it returned, the materialised
\* sequence, the traversals, the calls in progress, and the exception a
\* call has raised
VARIABLES snapshot, first, validator, vpres, vares, sequence, gens, frames,
          thrown

session ==
    <<snapshot, first, validator, vpres, vares, sequence, gens, frames, thrown>>

vars == <<contract, actions, action, pres, ares, rep, session>>

----------------------------------------------------------------------------
(* Bounds of the model *)

MaxSteps == 2
MaxLen == 3
MaxAllowed == 2
MaxRequired == 2
MaxOrder == 2
MaxRules == 2
MaxGens == 2

----------------------------------------------------------------------------
(* Optional values *)

Absent == <<>>
Some(v) == <<v>>
IsPresent(o) == Len(o) = 1
Get(o) == o[1]

Range(s) == {s[i] : i \in 1..Len(s)}

SeqsUpTo(S, n) == UNION {[1..k -> S] : k \in 0..n}

Optional(S) == {Absent} \cup {Some(v) : v \in S}

----------------------------------------------------------------------------
(* Data model: base.ts, contract.ts *)

ActionTypes == {"a", "b"}

\* step ids that rules name; a contract need not declare them
StepIds == {"s1", "s2"}

\* `id: string` admits the empty string as well
EmptyId == ""

StablyBaseAction == [type : ActionTypes]

PipelineInstance == SeqsUpTo(StablyBaseAction, MaxLen)

StablyContractStep == [id : StepIds \cup {EmptyId}, actionType : ActionTypes]

StablyTransitionRule == [from : StepIds, to : SUBSET StepIds]

OrderConstraint == [before : StepIds, after : StepIds]

StablyStructuralRules ==
    [allowedActionTypes : Optional(SeqsUpTo(ActionTypes, MaxAllowed)),
     requiredSteps : Optional(SeqsUpTo(StepIds, MaxRequired)),
     orderConstraints : Optional(SeqsUpTo(OrderConstraint, MaxOrder))]

\* `structural ?? {}`: every field of the default is absent
EmptyStructuralRules ==
    [allowedActionTypes |-> Absent, requiredSteps |-> Absent,
     orderConstraints |-> Absent]

----------------------------------------------------------------------------
(* Error strings: one constructor per template of validation.ts *)

ErrDisallowedAt(index, type) ==
    [kind |-> "disallowedAt", index |-> index, x |-> type, y |-> ""]

ErrRequired(required) ==
    [kind |-> "required", index |-> -1, x |-> required, y |-> ""]

ErrOrder(before, after) ==
    [kind |-> "order", index |-> -1, x |-> before, y |-> after]

ErrTransition(fromId, toId) ==
    [kind |-> "transition", index |-> -1, x |-> fromId, y |-> toId]

ErrDisallowed(type) ==
    [kind |-> "disallowed", index |-> -1, x |-> type, y |-> ""]

ErrNoStep(type) ==
    [kind |-> "noStep", index |-> -1, x |-> type, y |-> ""]

----------------------------------------------------------------------------
(* validation.ts: validatePipeline *)

\* stepByActionType.get(type) ?? [] : the steps declaring `type`, in
\* declaration order (the map is filled by one pass over contract.steps)
StepByActionType(steps, type) ==
    SelectSeq(steps, LAMBDA step : step.actionType = type)

\* const structuralRules = structural ?? {}
StructuralRulesOf(c) ==
    IF IsPresent(c.structural) THEN Get(c.structural) ELSE EmptyStructuralRules

\* faulty variant: the `length > 0` test is missing
NonEmptyListNoLengthTest(o) == IsPresent(o)

\* `list && list.length > 0`
NonEmptyList(o) == IsPresent(o) /\ Len(Get(o)) > 0

\* faulty variant: the reported index is 1-based
RECURSIVE AllowedTypeErrorsOneBased(_, _, _)
AllowedTypeErrorsOneBased(acts, allowed, i) ==
    IF i > Len(acts) THEN <<>>
    ELSE (IF acts[i].type \notin allowed
          THEN <<ErrDisallowedAt(i, acts[i].type)>>
          ELSE <<>>)
         \o AllowedTypeErrorsOneBased(acts, allowed, i + 1)

\* 1. allowedActionTypes: actions.forEach((action, index) => ...) from
\* position i (1-based here, reported 0-based)
RECURSIVE AllowedTypeErrorsFrom(_, _, _)
AllowedTypeErrorsFrom(acts, allowed, i) ==
    IF i > Len(acts) THEN <<>>
    ELSE (IF acts[i].type \notin allowed
          THEN <<ErrDisallowedAt(i - 1, acts[i].type)>>
          ELSE <<>>)
         \o AllowedTypeErrorsFrom(acts, allowed, i + 1)

\* faulty variant: the loop ends at the first action of a disallowed type
CheckAllowedActionTypesFirstOnly(acts, rules) ==
    LET all == IF NonEmptyList(rules.allowedActionTypes)
               THEN AllowedTypeErrorsFrom(acts, Range(Get(rules.allowedActionTypes)), 1)
               ELSE <<>>
    IN  IF Len(all) = 0 THEN <<>> ELSE <<all[1]>>

CheckAllowedActionTypes(acts, rules) ==
    IF NonEmptyList(rules.allowedActionTypes)
    THEN AllowedTypeErrorsFrom(acts, Range(Get(rules.allowedActionTypes)), 1)
    ELSE <<>>

\* faulty variant: an action marks only the first step that declares its type
SeenStepsFirstMatch(acts, steps) ==
    {StepByActionType(steps, acts[i].type)[1].id :
        i \in {k \in 1..Len(acts) :
                 Len(StepByActionType(steps, acts[k].type)) > 0}}

\* faulty variant: a step counts as seen only when exactly one action occurs for it
SeenStepsExactlyOnce(acts, steps) ==
    {id \in StepIds \cup {EmptyId} :
        Cardinality({i \in 1..Len(acts) :
            \E s \in Range(StepByActionType(steps, acts[i].type)) : s.id = id})
        = 1}

\* 2. requiredSteps: the ids of all steps declaring the type of some action
SeenSteps(acts, steps) ==
    UNION {{s.id : s \in Range(StepByActionType(steps, acts[i].type))} :
           i \in 1..Len(acts)}

RECURSIVE RequiredErrorsFrom(_, _, _)
RequiredErrorsFrom(requiredSteps, seenSteps, i) ==
    IF i > Len(requiredSteps) THEN <<>>
    ELSE (IF requiredSteps[i] \notin seenSteps
          THEN <<ErrRequired(requiredSteps[i])>>
          ELSE <<>>)
         \o RequiredErrorsFrom(requiredSteps, seenSteps, i + 1)

CheckRequiredSteps(acts, steps, rules) ==
    IF NonEmptyList(rules.requiredSteps)
    THEN RequiredErrorsFrom(Get(rules.requiredSteps), SeenSteps(acts, steps), 1)
    ELSE <<>>

\* 3. orderConstraints: idToIndices.get(id) ?? [] : the 0-based index of an
\* action is pushed once for every step with this id that declares its type
RECURSIVE IdToIndices(_, _, _, _)
IdToIndices(acts, steps, id, i) ==
    IF i > Len(acts) THEN <<>>
    ELSE LET possibleSteps == StepByActionType(steps, acts[i].type)
             hits == SelectSeq(possibleSteps, LAMBDA s : s.id = id)
         IN  [k \in 1..Len(hits) |-> i - 1]
             \o IdToIndices(acts, steps, id, i + 1)

MathMin(indices) ==
    CHOOSE m \in Range(indices) : \A n \in Range(indices) : m <= n

MathMax(indices) ==
    CHOOSE m \in Range(indices) : \A n \in Range(indices) : m >= n

\* faulty variant: the first `before` occurrence is compared, not the last
OrderViolatedFirstBefore(beforeIndices, afterIndices) ==
    IF Len(beforeIndices) = 0 \/ Len(afterIndices) = 0
    THEN FALSE
    ELSE MathMin(beforeIndices) > MathMin(afterIndices)

\* faulty variant: the last `after` occurrence is compared, not the first
OrderViolatedLastAfter(beforeIndices, afterIndices) ==
    IF Len(beforeIndices) = 0 \/ Len(afterIndices) = 0
    THEN FALSE
    ELSE MathMax(beforeIndices) > MathMax(afterIndices)

\* faulty variant: a step without an occurrence counts as out of order
OrderViolatedWhenMissing(beforeIndices, afterIndices) ==
    IF Len(beforeIndices) = 0 \/ Len(afterIndices) = 0
    THEN TRUE
    ELSE MathMax(beforeIndices) > MathMin(afterIndices)

\* faulty variant: the comparison is not strict
OrderViolatedNotStrict(beforeIndices, afterIndices) ==
    IF Len(beforeIndices) = 0 \/ Len(afterIndices) = 0
    THEN FALSE
    ELSE MathMax(beforeIndices) >= MathMin(afterIndices)

OrderViolated(beforeIndices, afterIndices) ==
    IF Len(beforeIndices) = 0 \/ Len(afterIndices) = 0
    THEN FALSE
    ELSE MathMax(beforeIndices) > MathMin(afterIndices)

RECURSIVE OrderErrorsFrom(_, _, _, _)
OrderErrorsFrom(acts, steps, orderConstraints, i) ==
    IF i > Len(orderConstraints) THEN <<>>
    ELSE LET before == orderConstraints[i].before
             after == orderConstraints[i].after
             beforeIndices == IdToIndices(acts, steps, before, 1)
             afterIndices == IdToIndices(acts, steps, after, 1)
         IN  (IF OrderViolated(beforeIndices, afterIndices)
              THEN <<ErrOrder(before, after)>>
              ELSE <<>>)
             \o OrderErrorsFrom(acts, steps, orderConstraints, i + 1)

CheckOrderConstraints(acts, steps, rules) ==
    IF NonEmptyList(rules.orderConstraints)
    THEN OrderErrorsFrom(acts, steps, Get(rules.orderConstraints), 1)
    ELSE <<>>

\* 4. transitions: transitionMap.get(fromId) after
\* transitions.forEach(rule => transitionMap.set(rule.from, new Set(rule.to)))
\* : the `to` set of the LAST rule naming fromId, absent when none does
RECURSIVE TransitionMapGet(_, _, _)
TransitionMapGet(transitions, fromId, n) ==
    IF n = 0 THEN Absent
    ELSE IF transitions[n].from = fromId THEN Some(transitions[n].to)
    ELSE TransitionMapGet(transitions, fromId, n - 1)

\* faulty variant: the last step declaring the type is taken
StepIdForActionLastMatch(steps, act) ==
    LET possibleSteps == StepByActionType(steps, act.type)
    IN  IF Len(possibleSteps) = 0 THEN Absent
        ELSE Some(possibleSteps[Len(possibleSteps)].id)

\* possibleSteps[0]?.id : the id of the first step declaring the type
StepIdForAction(steps, act) ==
    LET possibleSteps == StepByActionType(steps, act.type)
    IN  IF Len(possibleSteps) = 0 THEN Absent ELSE Some(possibleSteps[1].id)

\* faulty variant: actions that no step declares are dropped before the
\* adjacent pairs are formed
StepIdsForActionsMappedOnly(acts, steps) ==
    SelectSeq([i \in 1..Len(acts) |-> StepIdForAction(steps, acts[i])],
              LAMBDA id : IsPresent(id))

StepIdsForActions(acts, steps) ==
    [i \in 1..Len(acts) |-> StepIdForAction(steps, acts[i])]

\* `!id` : undefined and the empty string are both falsy
Falsy(id) == ~IsPresent(id) \/ Get(id) = ""

RECURSIVE TransitionErrorsFrom(_, _, _)
TransitionErrorsFrom(stepIdsForActions, transitions, i) ==
    IF i > Len(stepIdsForActions) - 1 THEN <<>>
    ELSE LET fromId == stepIdsForActions[i]
             toId == stepIdsForActions[i + 1]
         IN  (IF Falsy(fromId) \/ Falsy(toId) THEN <<>>
              ELSE LET allowedNext ==
                           TransitionMapGet(transitions, Get(fromId),
                                            Len(transitions))
                   IN  IF IsPresent(allowedNext)
                          /\ Get(toId) \notin Get(allowedNext)
                       THEN <<ErrTransition(Get(fromId), Get(toId))>>
                       ELSE <<>>)
             \o TransitionErrorsFrom(stepIdsForActions, transitions, i + 1)

CheckTransitions(acts, c) ==
    IF NonEmptyList(c.transitions)
    THEN TransitionErrorsFrom(StepIdsForActions(acts, c.steps),
                              Get(c.transitions), 1)
    ELSE <<>>

\* faulty variant: ok is taken before the checks have pushed their errors
ResultOkStale(errors) == [ok |-> TRUE, errors |-> errors]

\* faulty variant: the errors array outlives the call and is not cleared
ResultErrorsRetained(errors) ==
    LET retained == IF IsPresent(pres) THEN Get(pres).errors ELSE <<>>
    IN  [ok |-> Len(retained \o errors) = 0, errors |-> retained \o errors]

\* return { ok: errors.length === 0, errors }
Result(errors) == [ok |-> Len(errors) = 0, errors |-> errors]

\* faulty variant: validation stops at the first check that reports errors
PipelineErrorsShortCircuit(acts, c) ==
    LET structuralRules == StructuralRulesOf(c)
        typeErrors == CheckAllowedActionTypes(acts, structuralRules)
        requiredErrors == CheckRequiredSteps(acts, c.steps, structuralRules)
        orderErrors == CheckOrderConstraints(acts, c.steps, structuralRules)
    IN  IF Len(typeErrors) > 0 THEN typeErrors
        ELSE IF Len(requiredErrors) > 0 THEN requiredErrors
        ELSE IF Len(orderErrors) > 0 THEN orderErrors
        ELSE CheckTransitions(acts, c)

\* faulty variant: the actions of a disallowed type are left out of the
\* three later checks
PipelineErrorsPermittedOnly(acts, c) ==
    LET structuralRules == StructuralRulesOf(c)
        permitted ==
            IF NonEmptyList(structuralRules.allowedActionTypes)
            THEN SelectSeq(acts, LAMBDA act :
                     act.type \in Range(Get(structuralRules.allowedActionTypes)))
            ELSE acts
    IN  CheckAllowedActionTypes(acts, structuralRules)
        \o CheckRequiredSteps(permitted, c.steps, structuralRules)
        \o CheckOrderConstraints(permitted, c.steps, structuralRules)
        \o CheckTransitions(permitted, c)

\* faulty variant: a pipeline must end on a step marked terminal
PipelineErrorsTerminalEnforced(acts, c) ==
    LET structuralRules == StructuralRulesOf(c)
        last == IF Len(acts) = 0 THEN <<>>
                ELSE StepByActionType(c.steps, acts[Len(acts)].type)
    IN  CheckAllowedActionTypes(acts, structuralRules)
        \o CheckRequiredSteps(acts, c.steps, structuralRules)
        \o CheckOrderConstraints(acts, c.steps, structuralRules)
        \o CheckTransitions(acts, c)
        \o (IF Len(last) > 0 /\ last[1].terminal # Some(TRUE)
            THEN <<[kind |-> "terminal", index |-> -1, x |-> last[1].id, y |-> ""]>>
            ELSE <<>>)

\* the errors array after the four checks have pushed to it in turn
PipelineErrors(acts, c) ==
    LET structuralRules == StructuralRulesOf(c)
    IN  CheckAllowedActionTypes(acts, structuralRules)
        \o CheckRequiredSteps(acts, c.steps, structuralRules)
        \o CheckOrderConstraints(acts, c.steps, structuralRules)
        \o CheckTransitions(acts, c)

validatePipeline(acts, c) == Result(PipelineErrors(acts, c))

----------------------------------------------------------------------------
(* validation.ts: validateAction *)

\* faulty variant: the `length > 0` guard is missing, an empty list allows nothing
ActionTypeErrorsNoLengthGuard(act, rules) ==
    IF IsPresent(rules.allowedActionTypes)
       /\ act.type \notin Range(Get(rules.allowedActionTypes))
    THEN <<ErrDisallowed(act.type)>>
    ELSE <<>>

\* allowedTypes && allowedTypes.length > 0 && !allowedTypes.includes(type)
ActionTypeErrors(act, rules) ==
    IF NonEmptyList(rules.allowedActionTypes)
       /\ act.type \notin Range(Get(rules.allowedActionTypes))
    THEN <<ErrDisallowed(act.type)>>
    ELSE <<>>

\* faulty variant: the payload is validated where the source leaves it to
\* the consumer, by a schema that accepts only the payload "p"
ActionStepErrorsSchemaChecked(act, steps) ==
    IF \E i \in 1..Len(steps) : steps[i].actionType = act.type
    THEN IF act.payload = "p" THEN <<>>
         ELSE <<[kind |-> "payload", index |-> -1, x |-> act.type, y |-> act.payload]>>
    ELSE <<ErrNoStep(act.type)>>

\* steps.find(step => step.actionType === action.type) is undefined
ActionStepErrors(act, steps) ==
    IF \E i \in 1..Len(steps) : steps[i].actionType = act.type
    THEN <<>>
    ELSE <<ErrNoStep(act.type)>>

\* faulty variant: the step lookup is skipped once the type is disallowed
ActionErrorsShortCircuit(act, c) ==
    IF Len(ActionTypeErrors(act, StructuralRulesOf(c))) > 0
    THEN ActionTypeErrors(act, StructuralRulesOf(c))
    ELSE ActionStepErrors(act, c.steps)

\* the errors array after both checks
ActionErrors(act, c) ==
    ActionTypeErrors(act, StructuralRulesOf(c)) \o ActionStepErrors(act, c.steps)

validateAction(act, c) == Result(ActionErrors(act, c))

----------------------------------------------------------------------------
(* The inputs a caller can supply *)

\* step lists over the non-empty ids, and over all ids
StepLists ==
    SeqsUpTo({step \in StablyContractStep : step.id # EmptyId}, MaxSteps)

StepListsWithEmptyId == SeqsUpTo(StablyContractStep, MaxSteps)

TransitionLists == Optional(SeqsUpTo(StablyTransitionRule, MaxRules))

StablyContract(stepLists, transitionLists, structurals) ==
    [id : {"sample"}, steps : stepLists, transitions : transitionLists,
     structural : structurals]

\* contracts whose only rules are an allowedActionTypes list
AllowedContracts ==
    StablyContract(StepLists, {Absent},
        Optional({r \in StablyStructuralRules :
                    r.requiredSteps = Absent /\ r.orderConstraints = Absent}))

\* contracts whose only rules are a requiredSteps list
RequiredContracts(stepLists) ==
    StablyContract(stepLists, {Absent},
        Optional({r \in StablyStructuralRules :
                    r.allowedActionTypes = Absent /\ r.orderConstraints = Absent}))

\* contracts whose only rules are an orderConstraints list
OrderContracts ==
    StablyContract(StepLists, {Absent},
        Optional({r \in StablyStructuralRules :
                    r.allowedActionTypes = Absent /\ r.requiredSteps = Absent}))

\* contracts whose only rules are transitions; a step id may be empty
TransitionContracts ==
    StablyContract(StepListsWithEmptyId, TransitionLists, {Absent})

Singletons(S) == {<<x>> : x \in S}

\* step lists in which every id is declared once (contract.ts: the id names
\* the step)
UniqueIdStepLists ==
    {steps \in StepLists :
        \A i, j \in 1..Len(steps) : steps[i].id = steps[j].id => i = j}

\* contracts with one rule of each of the four kinds
MixedContracts ==
    StablyContract(UniqueIdStepLists, {Some(l) : l \in Singletons(StablyTransitionRule)},
        {Some(r) : r \in
            [allowedActionTypes : {Some(l) : l \in Singletons(ActionTypes)},
             requiredSteps : {Some(l) : l \in Singletons(StepIds)},
             orderConstraints : {Some(l) : l \in Singletons(OrderConstraint)}]})

\* contracts with one rule of each structural kind and no transitions
StructuralContracts ==
    StablyContract(StepLists, {Absent},
        {Some(r) : r \in
            [allowedActionTypes : {Some(l) : l \in Singletons(ActionTypes)},
             requiredSteps : {Some(l) : l \in Singletons(StepIds)},
             orderConstraints : {Some(l) : l \in Singletons(OrderConstraint)}]})

----------------------------------------------------------------------------
(* The caller: holds a contract and a pipeline instance and calls the     *)
(* validators on them                                                      *)

\* nothing of a session exists: no snapshot, no validator object, no
\* traversal, no call in progress
NoSession ==
    /\ snapshot = Absent
    /\ first = Absent
    /\ validator = Absent
    /\ vpres = Absent
    /\ vares = Absent
    /\ sequence = Absent
    /\ gens = <<>>
    /\ frames = <<>>
    /\ thrown = Absent

InitWith(contracts) ==
    /\ contract \in contracts
    /\ actions \in PipelineInstance
    /\ action = Absent
    /\ pres = Absent
    /\ ares = Absent
    /\ rep = Absent
    /\ NoSession

\* const result = validatePipeline(actions, contract)
ValidatePipeline ==
    /\ pres = Absent
    /\ pres' = Some(validatePipeline(actions, contract))
    /\ UNCHANGED <<contract, actions, action, ares, rep, session>>

\* const result = validateAction(action, contract)
ValidateAction ==
    \E type \in ActionTypes :
        /\ action' = Some([type |-> type])
        /\ ares' = Some(validateAction([type |-> type], contract))
        /\ UNCHANGED <<contract, actions, pres, rep, session>>

\* the sequence with a copy of acts[i] put in front of position j
InsertCopy(acts, i, j) ==
    SubSeq(acts, 1, j - 1) \o <<acts[i]>> \o SubSeq(acts, j, Len(acts))

\* The caller repeats an occurrence of a validated pipeline at another
\* position and validates the longer pipeline; rep keeps the pipeline it
\* started from, the occurrence that was repeated and the first result.
RepeatOccurrence ==
    /\ IsPresent(pres)
    /\ Len(actions) < MaxLen
    /\ \E i \in 1..Len(actions), j \in 1..(Len(actions) + 1) :
        /\ IsPresent(rep) => actions[i] = Get(rep).occurrence
        /\ actions' = InsertCopy(actions, i, j)
        /\ rep' = IF IsPresent(rep) THEN rep
                  ELSE Some([actions |-> actions, occurrence |-> actions[i],
                             result |-> Get(pres)])
    /\ pres' = Some(validatePipeline(actions', contract))
    /\ UNCHANGED <<contract, action, ares, session>>

\* one call of validatePipeline on any contract of the four single-rule
\* families or of the mixed family
SpecPipeline ==
    InitWith(AllowedContracts \cup RequiredContracts(StepLists) \cup OrderContracts
             \cup MixedContracts)
    /\ [][ValidatePipeline]_vars

SpecAllowed == InitWith(AllowedContracts) /\ [][ValidatePipeline]_vars

SpecRequired ==
    InitWith(RequiredContracts(StepListsWithEmptyId)) /\ [][ValidatePipeline]_vars

SpecOrder == InitWith(OrderContracts) /\ [][ValidatePipeline]_vars

SpecTransitions == InitWith(TransitionContracts) /\ [][ValidatePipeline]_vars

\* the orchestrator of the README: validatePipeline on the pipeline and
\* validateAction as a per-action guard, in any order
SpecValidators ==
    InitWith(AllowedContracts \cup MixedContracts)
    /\ [][ValidatePipeline \/ ValidateAction]_vars

\* a validated pipeline in which an occurrence is then repeated
SpecRepeat ==
    InitWith(StructuralContracts) /\ [][ValidatePipeline \/ RepeatOccurrence]_vars

----------------------------------------------------------------------------
(* Vocabulary of the claims *)

ErrorsOfKind(errors, kind) == SelectSeq(errors, LAMBDA e : e.kind = kind)

KindRank(kind) ==
    CASE kind = "disallowedAt" -> 1
      [] kind = "required" -> 2
      [] kind = "order" -> 3
      [] kind = "transition" -> 4

\* the contract with every rule removed, and with one rule list put back
NoRules(c) == [c EXCEPT !.transitions = Absent, !.structural = Absent]

OnlyAllowed(c) ==
    [NoRules(c) EXCEPT !.structural =
        Some([EmptyStructuralRules EXCEPT !.allowedActionTypes =
                  StructuralRulesOf(c).allowedActionTypes])]

OnlyRequired(c) ==
    [NoRules(c) EXCEPT !.structural =
        Some([EmptyStructuralRules EXCEPT !.requiredSteps =
                  StructuralRulesOf(c).requiredSteps])]

OnlyOrder(c) ==
    [NoRules(c) EXCEPT !.structural =
        Some([EmptyStructuralRules EXCEPT !.orderConstraints =
                  StructuralRulesOf(c).orderConstraints])]

OnlyTransitions(c) == [NoRules(c) EXCEPT !.transitions = c.transitions]

\* a present list, or the empty list when the field is absent
ListOf(o) == IF IsPresent(o) THEN Get(o) ELSE <<>>

\* the declared steps whose actionType is `type`, as positions of steps
Declaring(steps, type) == {k \in 1..Len(steps) : steps[k].actionType = type}

\* some step with this id declares the type of the action at position i
Occurs(acts, steps, id, i) ==
    \E k \in Declaring(steps, acts[i].type) : steps[k].id = id

\* the id of the first declared step with this actionType; "?" is no id
FirstStepId(steps, type) ==
    IF Declaring(steps, type) = {} THEN "?"
    ELSE steps[CHOOSE k \in Declaring(steps, type) :
                   \A m \in Declaring(steps, type) : k <= m].id

\* the positions of the pipeline at which step `id` occurs
Occurrences(acts, steps, id) ==
    {i \in 1..Len(acts) : Occurs(acts, steps, id, i)}

----------------------------------------------------------------------------
(* C1 *)

\* the errors appear by check: allowed-type, required, order, transition
C1_KindsInCheckOrder(errors) ==
    \A i, j \in 1..Len(errors) :
        i < j => KindRank(errors[i].kind) <= KindRank(errors[j].kind)

\* within a check the errors follow the action index, the requiredSteps
\* list, the orderConstraints list
C1_OrderWithinKind(errors, acts, c) ==
    LET typeErrors == ErrorsOfKind(errors, "disallowedAt")
        rules == StructuralRulesOf(c)
    IN  /\ \A i, j \in 1..Len(typeErrors) :
              i < j => typeErrors[i].index < typeErrors[j].index
        /\ ErrorsOfKind(errors, "required") =
              SelectSeq([k \in 1..Len(ListOf(rules.requiredSteps)) |->
                            ErrRequired(ListOf(rules.requiredSteps)[k])],
                        LAMBDA e : e \in Range(errors))
        /\ ErrorsOfKind(errors, "order") =
              SelectSeq([k \in 1..Len(ListOf(rules.orderConstraints)) |->
                            ErrOrder(ListOf(rules.orderConstraints)[k].before,
                                     ListOf(rules.orderConstraints)[k].after)],
                        LAMBDA e : e \in Range(errors))
        /\ ErrorsOfKind(errors, "transition") =
              SelectSeq([k \in 1..(Len(acts) - 1) |->
                            ErrTransition(FirstStepId(c.steps, acts[k].type),
                                          FirstStepId(c.steps, acts[k + 1].type))],
                        LAMBDA e : e \in Range(errors))

\* each check reports what it reports when it is the only rule of the
\* contract, and nothing when the contract has no rule for it
C1_NoCheckSkipped(errors, acts, c) ==
    LET rules == StructuralRulesOf(c)
    IN  /\ ErrorsOfKind(errors, "disallowedAt") =
              IF NonEmptyList(rules.allowedActionTypes)
              THEN validatePipeline(acts, OnlyAllowed(c)).errors ELSE <<>>
        /\ ErrorsOfKind(errors, "required") =
              IF NonEmptyList(rules.requiredSteps)
              THEN validatePipeline(acts, OnlyRequired(c)).errors ELSE <<>>
        /\ ErrorsOfKind(errors, "order") =
              IF NonEmptyList(rules.orderConstraints)
              THEN validatePipeline(acts, OnlyOrder(c)).errors ELSE <<>>
        /\ ErrorsOfKind(errors, "transition") =
              IF NonEmptyList(c.transitions)
              THEN validatePipeline(acts, OnlyTransitions(c)).errors ELSE <<>>

\* C1: validatePipeline runs its four checks in the fixed order
\* allowed-type, required-steps, order-constraints, transitions and
\* concatenates their errors; inside a check the errors follow the action
\* index or the rule list; no check is skipped or shortened because an
\* earlier check emitted errors.
C1_FixedCheckOrder ==
    IsPresent(pres) =>
        /\ C1_KindsInCheckOrder(Get(pres).errors)
        /\ C1_OrderWithinKind(Get(pres).errors, actions, contract)
        /\ C1_NoCheckSkipped(Get(pres).errors, actions, contract)

\* a result that holds errors of all four checks
C1_Witness ==
    /\ IsPresent(pres)
    /\ \A kind \in {"disallowedAt", "required", "order", "transition"} :
          Len(ErrorsOfKind(Get(pres).errors, kind)) > 0

----------------------------------------------------------------------------
(* C2 *)

\* the errors the required-steps rule owes: one per entry of requiredSteps,
\* in list order, for which no action has a type declared by a step with
\* that id
C2_Expected(acts, c) ==
    LET requiredSteps == ListOf(StructuralRulesOf(c).requiredSteps)
    IN  SelectSeq([k \in 1..Len(requiredSteps) |-> ErrRequired(requiredSteps[k])],
                  LAMBDA e : Occurrences(acts, c.steps, e.x) = {})

\* C2: validatePipeline emits the 'Required step' error for exactly those
\* entries of requiredSteps for which no action has a type declared by a
\* step with that id; an action marks every step that declares its type and
\* one occurrence is enough.
C2_RequiredSteps ==
    IsPresent(pres) =>
        ErrorsOfKind(Get(pres).errors, "required") = C2_Expected(actions, contract)

\* one required step is reported missing, another is satisfied by an action
\* whose type a different step declares first
C2_Witness ==
    /\ IsPresent(pres)
    /\ Len(ErrorsOfKind(Get(pres).errors, "required")) > 0
    /\ \E id \in Range(ListOf(StructuralRulesOf(contract).requiredSteps)) :
          /\ ErrRequired(id) \notin Range(Get(pres).errors)
          /\ \E i \in 1..Len(actions) :
                /\ Occurs(actions, contract.steps, id, i)
                /\ FirstStepId(contract.steps, actions[i].type) # id

----------------------------------------------------------------------------
(* C3 *)

SetMax(S) == CHOOSE m \in S : \A n \in S : m >= n

SetMin(S) == CHOOSE m \in S : \A n \in S : m <= n

\* both steps occur and the last `before` lies after the first `after`
C3_Violates(acts, steps, constraint) ==
    LET befores == Occurrences(acts, steps, constraint.before)
        afters == Occurrences(acts, steps, constraint.after)
    IN  /\ befores # {}
        /\ afters # {}
        /\ SetMax(befores) > SetMin(afters)

C3_Expected(acts, c) ==
    LET orderConstraints == ListOf(StructuralRulesOf(c).orderConstraints)
    IN  SelectSeq([k \in 1..Len(orderConstraints) |->
                      ErrOrder(orderConstraints[k].before, orderConstraints[k].after)],
                  LAMBDA e : C3_Violates(acts, c.steps, [before |-> e.x, after |-> e.y]))

\* C3: for each order constraint validatePipeline emits the 'Order
\* constraint violated' error exactly when both steps occur in the sequence
\* and the maximum index of a `before` occurrence is greater than the
\* minimum index of an `after` occurrence; a pair with a step that has no
\* occurrence, declared or not, is skipped.
C3_OrderConstraints ==
    IsPresent(pres) =>
        ErrorsOfKind(Get(pres).errors, "order") = C3_Expected(actions, contract)

\* one constraint is reported, another names an undeclared step and is
\* skipped
C3_Witness ==
    /\ IsPresent(pres)
    /\ \E constraint \in Range(ListOf(StructuralRulesOf(contract).orderConstraints)) :
          ErrOrder(constraint.before, constraint.after) \in Range(Get(pres).errors)
    /\ \E constraint \in Range(ListOf(StructuralRulesOf(contract).orderConstraints)) :
          /\ \A k \in 1..Len(contract.steps) : contract.steps[k].id # constraint.after
          /\ ErrOrder(constraint.before, constraint.after) \notin Range(Get(pres).errors)

----------------------------------------------------------------------------
(* C6 *)

\* one error per position whose type is not in the list, with the 0-based
\* position and the type
C6_Expected(acts, allowedActionTypes) ==
    SelectSeq([i \in 1..Len(acts) |-> ErrDisallowedAt(i - 1, acts[i].type)],
              LAMBDA e : e.x \notin Range(allowedActionTypes))

\* C6: when allowedActionTypes is non-empty, validatePipeline emits exactly
\* one 'Action at index <i> has disallowed type' error for each 0-based
\* position whose action type is not in the list, and none for a position
\* whose type is in the list.
C6_AllowedActionTypes ==
    LET allowedActionTypes == StructuralRulesOf(contract).allowedActionTypes
    IN  (IsPresent(pres) /\ NonEmptyList(allowedActionTypes)) =>
            ErrorsOfKind(Get(pres).errors, "disallowedAt")
                = C6_Expected(actions, Get(allowedActionTypes))

\* the first action is allowed and a later one is reported
C6_Witness ==
    /\ IsPresent(pres)
    /\ NonEmptyList(StructuralRulesOf(contract).allowedActionTypes)
    /\ Len(actions) >= 2
    /\ actions[1].type \in Range(Get(StructuralRulesOf(contract).allowedActionTypes))
    /\ ErrDisallowedAt(1, actions[2].type) \in Range(Get(pres).errors)

----------------------------------------------------------------------------
(* C9 *)

C9_Expected(act, c) ==
    LET allowedActionTypes == StructuralRulesOf(c).allowedActionTypes
    IN  (IF NonEmptyList(allowedActionTypes)
            /\ act.type \notin Range(Get(allowedActionTypes))
         THEN <<ErrDisallowed(act.type)>> ELSE <<>>)
        \o (IF Declaring(c.steps, act.type) = {}
            THEN <<ErrNoStep(act.type)>> ELSE <<>>)

\* C9: validateAction evaluates both checks and returns first 'Action has
\* disallowed type' iff allowedActionTypes is non-empty and lacks the type,
\* then 'No contract step found' iff no step declares the type; the first
\* error never suppresses the second.
C9_ActionChecks ==
    IsPresent(ares) => Get(ares).errors = C9_Expected(Get(action), contract)

\* both errors in one result
C9_Witness ==
    /\ IsPresent(ares)
    /\ Get(ares).errors = <<ErrDisallowed(Get(action).type), ErrNoStep(Get(action).type)>>

----------------------------------------------------------------------------
(* C10 *)

\* C10: in every result of validatePipeline and of validateAction, ok is
\* true if and only if the errors list is empty.
C10_OkIffNoErrors ==
    /\ IsPresent(pres) => (Get(pres).ok <=> Get(pres).errors = <<>>)
    /\ IsPresent(ares) => (Get(ares).ok <=> Get(ares).errors = <<>>)

\* a rejected pipeline and an accepted action, side by side
C10_Witness ==
    /\ IsPresent(pres) /\ ~Get(pres).ok
    /\ IsPresent(ares) /\ Get(ares).ok

----------------------------------------------------------------------------
(* C7 *)

\* the pipeline was accepted and the guard ran on one of its actions
C7_GuardOnAccepted ==
    /\ IsPresent(pres) /\ Get(pres).ok
    /\ IsPresent(ares) /\ Get(action) \in Range(actions)

\* C7 as claimed: if validatePipeline(actions, contract) is ok then
\* validateAction(a, contract) is ok for every action a of the sequence.
C7_Supersedes == C7_GuardOnAccepted => Get(ares).ok

\* C7 as amended: on an accepted pipeline validateAction reports no
\* disallowed type, and it is ok for every action whose type some step
\* declares; for an action whose type no step declares it reports 'No
\* contract step found' and nothing else.
C7_SupersedesAllowedTypes ==
    C7_GuardOnAccepted =>
        Get(ares).errors =
            IF Declaring(contract.steps, Get(action).type) = {}
            THEN <<ErrNoStep(Get(action).type)>> ELSE <<>>

\* an allowedActionTypes list is in force, the pipeline is accepted and the
\* guard fails on one of its actions
C7_Witness ==
    /\ C7_GuardOnAccepted
    /\ NonEmptyList(StructuralRulesOf(contract).allowedActionTypes)
    /\ ~Get(ares).ok

----------------------------------------------------------------------------
(* C8 *)

\* the required steps that the repeated occurrence satisfies
C8_SatisfiedBy(occurrence, c) ==
    {id \in Range(ListOf(StructuralRulesOf(c).requiredSteps)) :
        \E k \in Declaring(c.steps, occurrence.type) : c.steps[k].id = id}

\* an occurrence that satisfies a required step has been repeated
C8_Repeated ==
    IsPresent(rep) /\ C8_SatisfiedBy(Get(rep).occurrence, contract) # {}

\* C8 as claimed: after the repetition the required step is still
\* satisfied and validatePipeline reports no error that it did not report
\* for the original sequence.
C8_NoNewErrors ==
    C8_Repeated =>
        /\ \A id \in C8_SatisfiedBy(Get(rep).occurrence, contract) :
              ErrRequired(id) \notin Range(Get(pres).errors)
        /\ Range(Get(pres).errors) \subseteq Range(Get(rep).result.errors)

\* C8 as amended: after the repetition the required step is still
\* satisfied and validatePipeline reports no required-step error that it
\* did not report for the original sequence (the repetition can add
\* disallowed-type, order-constraint and transition errors).
C8_RepetitionTolerance ==
    C8_Repeated =>
        /\ \A id \in C8_SatisfiedBy(Get(rep).occurrence, contract) :
              ErrRequired(id) \notin Range(Get(pres).errors)
        /\ Range(ErrorsOfKind(Get(pres).errors, "required"))
              \subseteq Range(Get(rep).result.errors)

\* the occurrence has been repeated twice and the longer pipeline has an
\* error that the original did not have
C8_Witness ==
    /\ C8_Repeated
    /\ Len(actions) = Len(Get(rep).actions) + 2
    /\ ~(Range(Get(pres).errors) \subseteq Range(Get(rep).result.errors))

----------------------------------------------------------------------------
(* C4, C5 *)

\* the step an action resolves to in the transition check: the first
\* declared step with its type, if any
C4_Resolves(steps, act) == Declaring(steps, act.type) # {}

\* the rules of the contract that name the first step of pair (k, k+1)
C4_RulesFor(acts, c, k) ==
    {rule \in Range(ListOf(c.transitions)) :
        rule.from = FirstStepId(c.steps, acts[k].type)}

\* the pair (k, k+1) breaks a rule: both actions resolve to a step, a rule
\* names the first step as `from` and its `to` lacks the second step
C4_PairBreaksRule(acts, c, k) ==
    /\ C4_Resolves(c.steps, acts[k])
    /\ C4_Resolves(c.steps, acts[k + 1])
    /\ \E rule \in C4_RulesFor(acts, c, k) :
          FirstStepId(c.steps, acts[k + 1].type) \notin rule.to

\* the rules naming the first step of a pair agree about its second step
\* (what several rules with one `from` mean together is C5's subject)
C4_RulesAgree(acts, c) ==
    \A k \in 1..(Len(acts) - 1) :
        \A r1, r2 \in C4_RulesFor(acts, c, k) :
            (FirstStepId(c.steps, acts[k + 1].type) \in r1.to)
                <=> (FirstStepId(c.steps, acts[k + 1].type) \in r2.to)

C4_Expected(acts, c) ==
    LET pairs == {k \in 1..(Len(acts) - 1) : C4_PairBreaksRule(acts, c, k)}
    IN  SelectSeq([k \in 1..(Len(acts) - 1) |->
                      IF k \in pairs
                      THEN ErrTransition(FirstStepId(c.steps, acts[k].type),
                                         FirstStepId(c.steps, acts[k + 1].type))
                      ELSE ErrTransition("?", "?")],
                  LAMBDA e : e.x # "?")

\* C4: when contract.transitions is non-empty, validatePipeline emits one
\* 'Transition ... is not allowed' error for exactly those adjacent pairs in
\* which both actions resolve to a step, a transition rule exists for the
\* first step and the second step is not in that rule's `to` list, and none
\* for any other pair.
C4_TransitionErrors ==
    (IsPresent(pres) /\ C4_RulesAgree(actions, contract)) =>
        ErrorsOfKind(Get(pres).errors, "transition") = C4_Expected(actions, contract)

\* C5: every transition rule is enforced, also when several rules name the
\* same `from`: an adjacent pair whose first action resolves to the rule's
\* `from` and whose second resolves to a step outside the rule's `to` is
\* reported.
C5_EveryRuleEnforced ==
    IsPresent(pres) =>
        \A rule \in Range(ListOf(contract.transitions)), k \in 1..(Len(actions) - 1) :
            (/\ C4_Resolves(contract.steps, actions[k])
             /\ C4_Resolves(contract.steps, actions[k + 1])
             /\ rule.from = FirstStepId(contract.steps, actions[k].type)
             /\ FirstStepId(contract.steps, actions[k + 1].type) \notin rule.to)
            => ErrTransition(rule.from,
                             FirstStepId(contract.steps, actions[k + 1].type))
                  \in Range(Get(pres).errors)

----------------------------------------------------------------------------
(* generate.ts: generate, and the generator object it returns *)

IteratorResult(value, done) == [value |-> value, done |-> done]

\* faulty variant: a pipeline that validatePipeline has not accepted is not
\* traversed
generateIfAccepted(acts) ==
    IF IsPresent(pres) /\ Get(pres).ok
    THEN [state |-> "suspendedStart", nextIndex |-> 0]
    ELSE [state |-> "completed", nextIndex |-> 0]

\* generate(actions): the generator object before its first next(); the body
\* has not started, the array is held by reference and is read at each pull
generate(acts) == [state |-> "suspendedStart", nextIndex |-> 0]

\* faulty variant: the element is taken off the front of the array it was read from
ActionsAfterPullShift(acts) == IF Len(acts) = 0 THEN acts ELSE Tail(acts)

\* the array after a pull: `for (const action of actions)` reads the element
\* at the iterator's index and assigns nothing
ActionsAfterPull(acts) == acts

\* faulty variant: every other element is passed over
GeneratorNextSkipping(g, acts) ==
    IF g.state = "completed"
    THEN [gen |-> g, result |-> IteratorResult(Absent, TRUE), threw |-> FALSE]
    ELSE IF g.nextIndex < Len(acts)
    THEN [gen |-> [state |-> "suspendedYield", nextIndex |-> g.nextIndex + 2],
          result |-> IteratorResult(Some(acts[g.nextIndex + 1]), FALSE),
          threw |-> FALSE]
    ELSE [gen |-> [g EXCEPT !.state = "completed"],
          result |-> IteratorResult(Absent, TRUE), threw |-> FALSE]

\* generator.next(): resume the body; the for-of loop takes the element at
\* the array iterator's index while the index is below actions.length and
\* yields it, otherwise the body returns and the generator is completed
GeneratorNext(g, acts) ==
    IF g.state = "completed"
    THEN [gen |-> g, result |-> IteratorResult(Absent, TRUE), threw |-> FALSE]
    ELSE IF g.nextIndex < Len(acts)
    THEN [gen |-> [state |-> "suspendedYield", nextIndex |-> g.nextIndex + 1],
          result |-> IteratorResult(Some(acts[g.nextIndex + 1]), FALSE),
          threw |-> FALSE]
    ELSE [gen |-> [g EXCEPT !.state = "completed"],
          result |-> IteratorResult(Absent, TRUE), threw |-> FALSE]

\* faulty variant: stopping a traversal that is not exhausted is an error,
\* and the traversal stays open
GeneratorReturnThrows(g, acts) ==
    IF g.state # "completed" /\ g.nextIndex < Len(acts)
    THEN [gen |-> g, result |-> IteratorResult(Absent, FALSE), threw |-> TRUE]
    ELSE [gen |-> [g EXCEPT !.state = "completed"],
          result |-> IteratorResult(Absent, TRUE), threw |-> FALSE]

\* generator.return(): the body has no try/finally and the array iterator
\* has no return method, so the generator is completed and the call reports
\* done, with no value
GeneratorReturn(g, acts) ==
    [gen |-> [g EXCEPT !.state = "completed"],
     result |-> IteratorResult(Absent, TRUE), threw |-> FALSE]

\* Array.from(generator): next() until done, the values collected in order
RECURSIVE ArrayFrom(_, _)
ArrayFrom(g, acts) ==
    LET pull == GeneratorNext(g, acts)
    IN  IF pull.result.done THEN <<>>
        ELSE <<Get(pull.result.value)>>
             \o ArrayFrom(pull.gen, ActionsAfterPull(acts))

----------------------------------------------------------------------------
(* validation.ts: createValidator; what a call leaves of its arguments *)

\* the caller's contract object: its identity and its content
SuppliedRef == "supplied"

Supplied == [ref |-> SuppliedRef, value |-> contract]

\* faulty variant: the validator holds a copy of the supplied contract
createValidatorCopy(c) == [contract |-> [ref |-> "copy", value |-> c.value]]

\* return { contract, validatePipeline(actions) {...}, validateAction(action) {...} }
\* : the object holds the reference it was given
createValidator(c) == [contract |-> c]

\* the content of the contract the validator's closure refers to: the
\* caller's object as it is now when the reference is the caller's
ContractOf(v) ==
    IF v.contract.ref = SuppliedRef THEN contract ELSE v.contract.value

\* validator.validatePipeline(actions)
validatorValidatePipeline(v, acts) == validatePipeline(acts, ContractOf(v))

\* validator.validateAction(action)
validatorValidateAction(v, act) == validateAction(act, ContractOf(v))

\* faulty variant: the default for an absent `structural` is stored in the contract
ContractDefaultFilled(c) == [c EXCEPT !.structural = Some(StructuralRulesOf(c))]

\* the contract object when validatePipeline or validateAction has returned:
\* steps, structural and transitions are read into locals (the index maps,
\* `structural ?? {}`, new Set(...)) and nothing is assigned to the contract
ContractAfterCall(c) == c

\* the actions array when validatePipeline has returned: it is only iterated
ActionsAfterCall(acts) == acts

\* the two-step reduction of the test suite's baseContract, with any subset
\* of its four rule lists
SessionContracts ==
    StablyContract(
        {<<[id |-> "s1", actionType |-> "a"], [id |-> "s2", actionType |-> "b"]>>},
        {Absent, Some(<<[from |-> "s1", to |-> {"s2"}]>>)},
        {Absent} \cup {Some(r) : r \in
            [allowedActionTypes : {Absent, Some(<<"a">>)},
             requiredSteps : {Absent, Some(<<"s2">>)},
             orderConstraints :
                 {Absent, Some(<<[before |-> "s1", after |-> "s2"]>>)}]})

----------------------------------------------------------------------------
(* A session: one caller makes any calls in any order on one contract and  *)
(* one pipeline instance                                                   *)

\* const snapshot = JSON.parse(JSON.stringify(original)), and no call yet
InitSession ==
    /\ contract \in SessionContracts
    /\ actions \in PipelineInstance
    /\ action = Absent
    /\ pres = Absent
    /\ ares = Absent
    /\ rep = Absent
    /\ snapshot = Some([contract |-> contract, actions |-> actions])
    /\ first = Absent
    /\ validator = Absent
    /\ vpres = Absent
    /\ vares = Absent
    /\ sequence = Absent
    /\ gens = <<>>
    /\ frames = <<>>
    /\ thrown = Absent

\* the functions of the package called so far in the session
CalledSoFar ==
    (IF IsPresent(pres) \/ IsPresent(vpres) THEN {"validatePipeline"} ELSE {})
    \cup (IF IsPresent(ares) \/ IsPresent(vares) THEN {"validateAction"} ELSE {})
    \cup (IF IsPresent(validator) THEN {"createValidator"} ELSE {})
    \cup (IF IsPresent(sequence) THEN {"generate"} ELSE {})

\* validatePipeline(actions, contract); `first` keeps the result of the first
\* call and the functions that had been called before the latest call
CallValidatePipeline ==
    LET result == validatePipeline(actions, contract)
    IN  /\ pres' = Some(result)
        /\ first' = Some([result |-> IF IsPresent(first) THEN Get(first).result
                                     ELSE result,
                          before |-> CalledSoFar])
        /\ contract' = ContractAfterCall(contract)
        /\ actions' = ActionsAfterCall(actions)
        /\ UNCHANGED <<action, ares, rep, snapshot, validator, vpres, vares,
                       sequence, gens, frames, thrown>>

\* validateAction(action, contract)
CallValidateAction ==
    \E type \in ActionTypes :
        /\ action' = Some([type |-> type])
        /\ ares' = Some(validateAction([type |-> type], contract))
        /\ contract' = ContractAfterCall(contract)
        /\ UNCHANGED <<actions, pres, rep, snapshot, first, validator, vpres,
                       vares, sequence, gens, frames, thrown>>

\* const validator = createValidator(contract)
CallCreateValidator ==
    /\ validator' = Some(createValidator(Supplied))
    /\ UNCHANGED <<contract, actions, action, pres, ares, rep, snapshot, first,
                   vpres, vares, sequence, gens, frames, thrown>>

\* validator.validatePipeline(actions)
CallValidatorValidatePipeline ==
    /\ IsPresent(validator)
    /\ vpres' = Some(validatorValidatePipeline(Get(validator), actions))
    /\ contract' = ContractAfterCall(contract)
    /\ actions' = ActionsAfterCall(actions)
    /\ UNCHANGED <<action, pres, ares, rep, snapshot, first, validator, vares,
                   sequence, gens, frames, thrown>>

\* validator.validateAction(action)
CallValidatorValidateAction ==
    /\ IsPresent(validator)
    /\ \E type \in ActionTypes :
          vares' = Some([action |-> [type |-> type],
                         result |-> validatorValidateAction(Get(validator),
                                                            [type |-> type])])
    /\ contract' = ContractAfterCall(contract)
    /\ UNCHANGED <<actions, action, pres, ares, rep, snapshot, first, validator,
                   vpres, sequence, gens, frames, thrown>>

\* const sequence = Array.from(generate(actions))
CallGenerate ==
    /\ sequence' = Some(ArrayFrom(generate(actions), actions))
    /\ UNCHANGED <<contract, actions, action, pres, ares, rep, snapshot, first,
                   validator, vpres, vares, gens, frames, thrown>>

NextSession ==
    \/ CallValidatePipeline
    \/ CallValidateAction
    \/ CallCreateValidator
    \/ CallValidatorValidatePipeline
    \/ CallValidatorValidateAction
    \/ CallGenerate

SpecSession == InitSession /\ [][NextSession]_vars

----------------------------------------------------------------------------
(* C11 *)

----------------------------------------------------------------------------
(* C12 *)

----------------------------------------------------------------------------
(* C13 *)

\* C13: the validator holds the supplied contract itself, and on every call
\* validator.validatePipeline(actions) equals validatePipeline(actions,
\* contract) and validator.validateAction(action) equals
\* validateAction(action, contract).
C13_PureComposition ==
    IsPresent(validator) =>
        /\ Get(validator).contract = Supplied
        /\ IsPresent(vpres) => Get(vpres) = validatePipeline(actions, contract)
        /\ IsPresent(vares) =>
              Get(vares).result = validateAction(Get(vares).action, contract)

\* both methods of the validator have returned errors
C13_Witness ==
    /\ IsPresent(validator)
    /\ IsPresent(vpres) /\ ~Get(vpres).ok
    /\ IsPresent(vares) /\ ~Get(vares).result.ok

----------------------------------------------------------------------------
(* Traversals: a consumer creates generators over one actions array with   *)
(* separate generate calls and pulls from them, or stops them, in any      *)
(* order                                                                   *)

\* the contract plays no part in a traversal
EmptyContract ==
    [id |-> "sample", steps |-> <<>>, transitions |-> Absent, structural |-> Absent]

InitTraversals ==
    /\ contract = EmptyContract
    /\ actions \in PipelineInstance
    /\ action = Absent
    /\ pres = Absent
    /\ ares = Absent
    /\ rep = Absent
    /\ snapshot = Some([contract |-> contract, actions |-> actions])
    /\ first = Absent
    /\ validator = Absent
    /\ vpres = Absent
    /\ vares = Absent
    /\ sequence = Absent
    /\ gens = <<>>
    /\ frames = <<>>
    /\ thrown = Absent

\* a traversal that was stopped before it had yielded every element
StoppedEarly(t) == t.returned /\ Len(t.pulled) < Len(actions)

\* const generator = generate(actions); beside the generator object the
\* record keeps what the consumer has seen of it: the number of next() calls
\* until the first done, the values yielded, the last IteratorResult, whether
\* return() was called and whether next() was called after it, whether a call
\* threw, and whether an earlier traversal had been stopped early by then
Generate ==
    /\ Len(gens) < MaxGens
    /\ gens' = Append(gens,
          [gen |-> generate(actions), pulls |-> 0, pulled |-> <<>>,
           last |-> Absent, returned |-> FALSE, pulledAfterReturn |-> FALSE,
           threw |-> FALSE,
           fresh |-> \E k \in 1..Len(gens) : StoppedEarly(gens[k])])
    /\ UNCHANGED <<contract, actions, action, pres, ares, rep, snapshot, first,
                   validator, vpres, vares, sequence, frames, thrown>>

\* current = generator.next()
Pull(k) ==
    LET t == gens[k]
        pull == GeneratorNext(t.gen, actions)
    IN  /\ gens' = [gens EXCEPT ![k] =
              [t EXCEPT !.gen = pull.gen,
                        !.pulls = IF t.returned
                                     \/ (IsPresent(t.last) /\ Get(t.last).done)
                                  THEN @ ELSE @ + 1,
                        !.pulled = IF pull.result.done THEN @
                                   ELSE Append(@, Get(pull.result.value)),
                        !.last = Some(pull.result),
                        !.pulledAfterReturn = t.returned,
                        !.threw = @ \/ pull.threw]]
        /\ actions' = ActionsAfterPull(actions)
        /\ UNCHANGED <<contract, action, pres, ares, rep, snapshot, first,
                       validator, vpres, vares, sequence, frames, thrown>>

\* generator.return()
Return(k) ==
    LET t == gens[k]
        stop == GeneratorReturn(t.gen, actions)
    IN  /\ ~t.returned
        /\ gens' = [gens EXCEPT ![k] =
              [t EXCEPT !.gen = stop.gen,
                        !.last = Some(stop.result),
                        !.returned = TRUE,
                        !.threw = @ \/ stop.threw]]
        /\ UNCHANGED <<contract, actions, action, pres, ares, rep, snapshot,
                       first, validator, vpres, vares, sequence, frames,
                       thrown>>

NextTraversals ==
    \/ Generate
    \/ \E k \in 1..Len(gens) : Pull(k)
    \/ \E k \in 1..Len(gens) : Return(k)

SpecTraversals == InitTraversals /\ [][NextTraversals]_vars

\* the array that was passed to generate
Source == Get(snapshot).actions

IsPrefix(s, t) == Len(s) <= Len(t) /\ s = SubSeq(t, 1, Len(s))

----------------------------------------------------------------------------
(* C14 *)

\* C14: a traversal that is pulled and never stopped yields exactly the
\* elements of actions, each once, in the original order: the p-th pull
\* yields actions[p-1] while p is at most the length, the pull after as many
\* pulls as actions has elements reports done (the first pull for an empty
\* actions), and by then the values yielded are actions itself.
C14_YieldsAllInOrder ==
    \A k \in 1..Len(gens) :
        LET t == gens[k]
        IN  (~t.returned /\ IsPresent(t.last)) =>
               /\ t.pulls <= Len(Source) =>
                     /\ ~Get(t.last).done
                     /\ Get(t.last).value = Some(Source[t.pulls])
                     /\ t.pulled = SubSeq(Source, 1, t.pulls)
               /\ t.pulls > Len(Source) =>
                     /\ t.pulls = Len(Source) + 1
                     /\ Get(t.last).done
                     /\ Get(t.last).value = Absent
                     /\ t.pulled = Source

\* a traversal over the longest actions, with two types, has reported done
C14_Witness ==
    \E k \in 1..Len(gens) :
        /\ ~gens[k].returned
        /\ IsPresent(gens[k].last) /\ Get(gens[k].last).done
        /\ Len(gens[k].pulled) = MaxLen
        /\ Cardinality(Range(gens[k].pulled)) > 1

----------------------------------------------------------------------------
(* C15 *)

\* C15: whatever the interleaving of pulls and stops on the traversals
\* created by separate generate calls over the same actions, the k-th
\* element pulled from each traversal is actions[k-1], and the source
\* actions is left unchanged.
C15_IndependentTraversals ==
    /\ \A k \in 1..Len(gens) : IsPrefix(gens[k].pulled, Source)
    /\ gens # <<>> => actions = Source

\* two traversals at different positions, one of them stopped early, the
\* other pulled after that stop
C15_Witness ==
    \E j, k \in 1..Len(gens) :
        /\ StoppedEarly(gens[j])
        /\ Len(gens[j].pulled) > 0
        /\ gens[k].fresh
        /\ Len(gens[k].pulled) > Len(gens[j].pulled)

----------------------------------------------------------------------------
(* C16 *)

\* C16: a traversal may be stopped after any number of pulls without any
\* error: no next() or return() call throws; after return() the call and
\* every later pull report done with no value and the values yielded stay
\* those of the pulls made before it; a traversal created after an early
\* stop yields the complete sequence.
C16_EarlyAbandonment ==
    \A k \in 1..Len(gens) :
        LET t == gens[k]
        IN  /\ ~t.threw
            /\ t.returned =>
                  /\ Get(t.last) = IteratorResult(Absent, TRUE)
                  /\ Len(t.pulled) = IF t.pulls > Len(Source) THEN Len(Source)
                                     ELSE t.pulls
            /\ (t.fresh /\ ~t.returned /\ IsPresent(t.last) /\ Get(t.last).done)
                  => t.pulled = Source

\* a traversal stopped after one of several elements and pulled again, and
\* a traversal created after the stop that has run to its end
C16_Witness ==
    \E j, k \in 1..Len(gens) :
        /\ StoppedEarly(gens[j])
        /\ Len(gens[j].pulled) = 1
        /\ gens[j].pulledAfterReturn
        /\ gens[k].fresh /\ ~gens[k].returned
        /\ IsPresent(gens[k].last) /\ Get(gens[k].last).done

----------------------------------------------------------------------------
(* The empty pipeline instance *)

\* a rule list that is absent, empty, or holds one rule
UpToOne(S) == {Absent, Some(<<>>)} \cup {Some(l) : l \in Singletons(S)}

\* contracts with any steps and, for each rule list, no list, an empty list
\* or one rule
EmptyPipelineContracts ==
    StablyContract(StepListsWithEmptyId, UpToOne(StablyTransitionRule),
        Optional([allowedActionTypes : UpToOne(ActionTypes),
                  requiredSteps : UpToOne(StepIds),
                  orderConstraints : UpToOne(OrderConstraint)]))

\* validatePipeline([], contract)
InitEmptyPipeline ==
    /\ contract \in EmptyPipelineContracts
    /\ actions = <<>>
    /\ action = Absent
    /\ pres = Absent
    /\ ares = Absent
    /\ rep = Absent
    /\ NoSession

SpecEmptyPipeline == InitEmptyPipeline /\ [][ValidatePipeline]_vars

----------------------------------------------------------------------------
(* C17 *)

\* C17: for every contract with no requiredSteps and no allowedActionTypes
\* (absent or empty), whatever its steps, transitions and order
\* constraints, validatePipeline([], contract) returns ok true with an
\* empty errors list.
C17_EmptyPipelineAccepted ==
    (/\ IsPresent(pres)
     /\ actions = <<>>
     /\ ~NonEmptyList(StructuralRulesOf(contract).requiredSteps)
     /\ ~NonEmptyList(StructuralRulesOf(contract).allowedActionTypes))
    => Get(pres) = [ok |-> TRUE, errors |-> <<>>]

\* the empty pipeline is accepted by a contract that declares steps and has
\* a transition rule and an order constraint over them
C17_Witness ==
    /\ IsPresent(pres) /\ Get(pres).ok
    /\ actions = <<>>
    /\ ~NonEmptyList(StructuralRulesOf(contract).requiredSteps)
    /\ ~NonEmptyList(StructuralRulesOf(contract).allowedActionTypes)
    /\ Len(contract.steps) = MaxSteps
    /\ NonEmptyList(contract.transitions)
    /\ Get(contract.transitions)[1].from = contract.steps[1].id
    /\ NonEmptyList(StructuralRulesOf(contract).orderConstraints)
    /\ Get(StructuralRulesOf(contract).orderConstraints)[1].before
          = contract.steps[1].id

----------------------------------------------------------------------------
(* Independent callers: each validates a pipeline instance of its own      *)
(* against the one contract object; a call is taken check by check and     *)
(* the checks of different calls are interleaved in any order              *)

Callers == {"caller1", "caller2"}

IdleFrame ==
    [pc |-> "idle", actions |-> <<>>, errors |-> <<>>, result |-> Absent]

InCall(fr, c) == fr[c].pc # "idle"

\* faulty variant: one errors array is shared by all calls in progress
PushErrorsShared(fr, caller, new) ==
    [c \in Callers |->
        IF InCall(fr, c) THEN [fr[c] EXCEPT !.errors = @ \o new] ELSE fr[c]]

\* errors.push(...) : the array is the `const errors` of this call
PushErrors(fr, caller, new) == [fr EXCEPT ![caller].errors = @ \o new]

\* the frame moves on to the next check
Advance(fr, caller, pc) == [fr EXCEPT ![caller].pc = pc]

InitCallers ==
    /\ contract \in SessionContracts
    /\ actions = <<>>
    /\ action = Absent
    /\ pres = Absent
    /\ ares = Absent
    /\ rep = Absent
    /\ snapshot = Some([contract |-> contract, actions |-> actions])
    /\ first = Absent
    /\ validator = Absent
    /\ vpres = Absent
    /\ vares = Absent
    /\ sequence = Absent
    /\ gens = <<>>
    /\ frames = [c \in Callers |-> IdleFrame]
    /\ thrown = Absent

\* validatePipeline(actions, contract) is entered: const errors = []; the
\* caller has dropped the result of its previous call
Enter(caller) ==
    /\ frames[caller].pc = "idle"
    /\ \E acts \in PipelineInstance :
          frames' = [frames EXCEPT ![caller] =
                        [IdleFrame EXCEPT !.pc = "allowedActionTypes",
                                          !.actions = acts]]
    /\ UNCHANGED <<contract, actions, action, pres, ares, rep, snapshot, first,
                   validator, vpres, vares, sequence, gens, thrown>>

\* 1. allowedActionTypes
StepAllowedActionTypes(caller) ==
    /\ frames[caller].pc = "allowedActionTypes"
    /\ frames' = Advance(
          PushErrors(frames, caller,
              CheckAllowedActionTypes(frames[caller].actions,
                                      StructuralRulesOf(contract))),
          caller, "requiredSteps")
    /\ UNCHANGED <<contract, actions, action, pres, ares, rep, snapshot, first,
                   validator, vpres, vares, sequence, gens, thrown>>

\* 2. requiredSteps
StepRequiredSteps(caller) ==
    /\ frames[caller].pc = "requiredSteps"
    /\ frames' = Advance(
          PushErrors(frames, caller,
              CheckRequiredSteps(frames[caller].actions, contract.steps,
                                 StructuralRulesOf(contract))),
          caller, "orderConstraints")
    /\ UNCHANGED <<contract, actions, action, pres, ares, rep, snapshot, first,
                   validator, vpres, vares, sequence, gens, thrown>>

\* 3. orderConstraints
StepOrderConstraints(caller) ==
    /\ frames[caller].pc = "orderConstraints"
    /\ frames' = Advance(
          PushErrors(frames, caller,
              CheckOrderConstraints(frames[caller].actions, contract.steps,
                                    StructuralRulesOf(contract))),
          caller, "transitions")
    /\ UNCHANGED <<contract, actions, action, pres, ares, rep, snapshot, first,
                   validator, vpres, vares, sequence, gens, thrown>>

\* 4. transitions
StepTransitions(caller) ==
    /\ frames[caller].pc = "transitions"
    /\ frames' = Advance(
          PushErrors(frames, caller,
              CheckTransitions(frames[caller].actions, contract)),
          caller, "return")
    /\ UNCHANGED <<contract, actions, action, pres, ares, rep, snapshot, first,
                   validator, vpres, vares, sequence, gens, thrown>>

\* return { ok: errors.length === 0, errors }
StepReturn(caller) ==
    /\ frames[caller].pc = "return"
    /\ frames' = [frames EXCEPT
          ![caller].pc = "idle",
          ![caller].result = Some(Result(frames[caller].errors))]
    /\ contract' = ContractAfterCall(contract)
    /\ UNCHANGED <<actions, action, pres, ares, rep, snapshot, first,
                   validator, vpres, vares, sequence, gens, thrown>>

NextCallers ==
    \E caller \in Callers :
        \/ Enter(caller)
        \/ StepAllowedActionTypes(caller)
        \/ StepRequiredSteps(caller)
        \/ StepOrderConstraints(caller)
        \/ StepTransitions(caller)
        \/ StepReturn(caller)

SpecCallers == InitCallers /\ [][NextCallers]_vars

----------------------------------------------------------------------------
(* C18 *)

\* C18: when independent callers validate against the same contract object
\* with their checks interleaved in any order, each caller obtains the
\* result it would obtain running alone (the errors its checks have gathered
\* when it is about to return, and the result it has returned), and the
\* contract is what it was before the calls.
C18_NoInterference ==
    /\ \A c \in Callers :
          /\ frames[c].pc = "return" =>
                frames[c].errors
                    = validatePipeline(frames[c].actions, contract).errors
          /\ IsPresent(frames[c].result) =>
                Get(frames[c].result)
                    = validatePipeline(frames[c].actions, contract)
    /\ contract = Get(snapshot).contract

\* two calls in progress at once have each run their four checks and hold
\* different, non-empty error lists
C18_Witness ==
    \E c, d \in Callers :
        /\ frames[c].pc = "return" /\ frames[d].pc = "return"
        /\ frames[c].errors # <<>>
        /\ frames[d].errors # <<>>
        /\ frames[c].errors # frames[d].errors

----------------------------------------------------------------------------
(* Exceptions: the values validation.ts dereferences. Reading a property   *)
(* of undefined, or iterating it, raises a TypeError; a value is modelled  *)
(* as present or absent (undefined) at the place where it is dereferenced  *)

\* faulty variant: the `?? {}` default is missing
StructuralRulesObjectNoDefault(c) == c.structural

\* const structuralRules = structural ?? {} ; its properties are read next
StructuralRulesObject(c) == Some(StructuralRulesOf(c))

\* const possibleSteps = stepByActionType.get(action.type) ?? [] ; iterated
\* by for-of (possibleSteps[0]?.id is an optional chain and cannot raise)
PossibleStepsList(steps, act) == Some(StepByActionType(steps, act.type))

\* idToIndices.get(id) ?? [] ; its length is read
IndicesList(acts, steps, id) == Some(IdToIndices(acts, steps, id, 1))

\* every value validatePipeline dereferences is defined (transitionMap.get
\* is guarded by `allowedNext &&`, Math.min/Math.max by the length test)
PipelineCompletes(acts, c) ==
    /\ IsPresent(StructuralRulesObject(c))
    /\ \A i \in 1..Len(acts) : IsPresent(PossibleStepsList(c.steps, acts[i]))
    /\ \A constraint \in Range(ListOf(StructuralRulesOf(c).orderConstraints)) :
          /\ IsPresent(IndicesList(acts, c.steps, constraint.before))
          /\ IsPresent(IndicesList(acts, c.steps, constraint.after))

\* every value validateAction dereferences is defined (the result of
\* steps.find is only tested)
ActionCompletes(act, c) == IsPresent(StructuralRulesObject(c))

TypeError(where) == Some([name |-> "TypeError", in |-> where])

\* contracts with one rule of each kind or with no rule at all; the steps
\* may be empty and the rules may name steps that are not declared
WellTypedContracts ==
    MixedContracts \cup StablyContract(UniqueIdStepLists, {Absent}, {Absent})

\* try { result = validatePipeline(actions, contract) } catch (e) { ... }
TryValidatePipeline ==
    /\ pres = Absent
    /\ thrown = Absent
    /\ IF PipelineCompletes(actions, contract)
       THEN pres' = Some(validatePipeline(actions, contract)) /\ thrown' = thrown
       ELSE pres' = pres /\ thrown' = TypeError("validatePipeline")
    /\ UNCHANGED <<contract, actions, action, ares, rep, snapshot, first,
                   validator, vpres, vares, sequence, gens, frames>>

\* try { result = validateAction(action, contract) } catch (e) { ... }
TryValidateAction ==
    /\ thrown = Absent
    /\ \E type \in ActionTypes :
          /\ action' = Some([type |-> type])
          /\ IF ActionCompletes([type |-> type], contract)
             THEN /\ ares' = Some(validateAction([type |-> type], contract))
                  /\ thrown' = thrown
             ELSE ares' = ares /\ thrown' = TypeError("validateAction")
    /\ UNCHANGED <<contract, actions, pres, rep, snapshot, first, validator,
                   vpres, vares, sequence, gens, frames>>

SpecWellTyped ==
    InitWith(WellTypedContracts) /\ [][TryValidatePipeline \/ TryValidateAction]_vars

----------------------------------------------------------------------------
(* C19 *)

\* a { ok, errors } value whose errors are built from the given templates
C19_IsResult(result, kinds) ==
    /\ DOMAIN result = {"ok", "errors"}
    /\ result.ok \in BOOLEAN
    /\ \A i \in 1..Len(result.errors) : result.errors[i].kind \in kinds

----------------------------------------------------------------------------
(* An orchestrator that may validate the pipeline and may call the         *)
(* stably.generate tool, each or neither, in either order                  *)

SpecOrchestrator ==
    InitWith(SessionContracts) /\ [][ValidatePipeline \/ CallGenerate]_vars

----------------------------------------------------------------------------
(* C20 *)

\* C20: generate(actions), and the stably.generate tool that wraps it,
\* yields the complete sequence whether or not validatePipeline was ever
\* called on that sequence and whether or not validatePipeline would reject
\* it.
C20_NoValidationBeforeGeneration ==
    IsPresent(sequence) => Get(sequence) = actions

\* the complete sequence was produced for a pipeline that was never
\* validated and that validatePipeline rejects
C20_Witness ==
    /\ IsPresent(sequence)
    /\ Len(Get(sequence)) = MaxLen
    /\ pres = Absent
    /\ ~validatePipeline(actions, contract).ok

----------------------------------------------------------------------------
(* C21 *)

\* some occurrence of `before` lies at a strictly later position than some
\* occurrence of `after`
C21_SomeBeforeAfterSomeAfter(acts, steps, constraint) ==
    \E i \in Occurrences(acts, steps, constraint.before) :
        \E j \in Occurrences(acts, steps, constraint.after) : i > j

C21_Reported(acts, c, constraint) ==
    ErrOrder(constraint.before, constraint.after)
        \in Range(validatePipeline(acts, c).errors)

\* occurrences of the two steps of a constraint interleave in the sequence:
\* an `after` occurrence lies between two `before` occurrences
C21_Interleaved(acts, steps, constraint) ==
    \E i, k \in Occurrences(acts, steps, constraint.before) :
        \E j \in Occurrences(acts, steps, constraint.after) : i < j /\ j < k

\* C21 as claimed: the check is permissive when occurrences interleave: for
\* a contract and a constraint whose occurrences can interleave there are
\* sequences in which some occurrence of `before` lies at a strictly later
\* index than some occurrence of `after` and validatePipeline emits no
\* order-constraint error for that pair.
C21_Permissive ==
    IsPresent(pres) =>
        \A constraint \in Range(ListOf(StructuralRulesOf(contract).orderConstraints)) :
            C21_Interleaved(actions, contract.steps, constraint) =>
                \E acts \in PipelineInstance :
                    /\ C21_SomeBeforeAfterSomeAfter(acts, contract.steps, constraint)
                    /\ ~C21_Reported(acts, contract, constraint)

\* C21 as amended: the order-constraint check is a full pairwise ordering:
\* validatePipeline emits the error for a pair exactly when some occurrence
\* of `before` lies at a strictly later index than some occurrence of
\* `after`, also when the occurrences interleave.
C21_PairwiseOrdering ==
    IsPresent(pres) =>
        \A constraint \in Range(ListOf(StructuralRulesOf(contract).orderConstraints)) :
            C21_SomeBeforeAfterSomeAfter(actions, contract.steps, constraint)
                <=> ErrOrder(constraint.before, constraint.after)
                        \in Range(Get(pres).errors)

\* interleaved occurrences: `before`, `after`, `before` again, of two steps
\* with different types, and the pair is reported
C21_Witness ==
    /\ IsPresent(pres)
    /\ \E constraint \in Range(ListOf(StructuralRulesOf(contract).orderConstraints)) :
          /\ Occurrences(actions, contract.steps, constraint.before) = {1, 3}
          /\ Occurrences(actions, contract.steps, constraint.after) = {2}
          /\ ErrOrder(constraint.before, constraint.after)
                \in Range(Get(pres).errors)

----------------------------------------------------------------------------
(* Steps that share an actionType *)

\* contracts with any steps, one required step or none, one transition rule
\* or none
AmbiguousContracts ==
    StablyContract(StepLists,
        {Absent} \cup {Some(l) : l \in Singletons(StablyTransitionRule)},
        {Absent} \cup {Some([EmptyStructuralRules EXCEPT !.requiredSteps = Some(l)]) :
                          l \in Singletons(StepIds)})

SpecAmbiguity == InitWith(AmbiguousContracts) /\ [][ValidatePipeline]_vars

----------------------------------------------------------------------------
(* C22 *)

\* the step ids that actions of the sequence resolve to in the transition
\* check
C22_FirstIds(acts, steps) ==
    {FirstStepId(steps, acts[i].type) : i \in 1..Len(acts)} \ {"?"}

\* the step is declared for the type of some action of the sequence, but
\* never as the first step of that type
C22_Shadowed(acts, steps, id) ==
    /\ Occurrences(acts, steps, id) # {}
    /\ id \notin C22_FirstIds(acts, steps)

\* C22: when several steps share one actionType, an action of that type
\* satisfies every one of those steps in the required-steps check, but in
\* the transition check it resolves only to the first of them in
\* declaration order: a pair is reported exactly when the rule for the
\* first step of its first action lacks the first step of its second
\* action, and no reported transition names a later-declared step.
C22_AsymmetricAmbiguity ==
    IsPresent(pres) =>
        /\ \A id \in Range(ListOf(StructuralRulesOf(contract).requiredSteps)) :
              Occurrences(actions, contract.steps, id) # {}
                  => ErrRequired(id) \notin Range(Get(pres).errors)
        /\ \A e \in Range(ErrorsOfKind(Get(pres).errors, "transition")) :
              /\ e.x \in C22_FirstIds(actions, contract.steps)
              /\ e.y \in C22_FirstIds(actions, contract.steps)
        /\ \A k \in 1..(Len(actions) - 1) :
              \A rule \in Range(ListOf(contract.transitions)) :
                  (/\ C4_Resolves(contract.steps, actions[k])
                   /\ C4_Resolves(contract.steps, actions[k + 1]))
                  => ((/\ rule.from = FirstStepId(contract.steps, actions[k].type)
                       /\ FirstStepId(contract.steps, actions[k + 1].type)
                             \notin rule.to)
                      <=> ErrTransition(
                              FirstStepId(contract.steps, actions[k].type),
                              FirstStepId(contract.steps, actions[k + 1].type))
                            \in Range(Get(pres).errors))

\* a later-declared step that shares its type is required and is satisfied,
\* and the transition rule from that step, which allows nothing, is not
\* applied to two adjacent actions of the type
C22_Witness ==
    /\ IsPresent(pres) /\ Get(pres).ok
    /\ \E id \in Range(ListOf(StructuralRulesOf(contract).requiredSteps)) :
          /\ C22_Shadowed(actions, contract.steps, id)
          /\ \E rule \in Range(ListOf(contract.transitions)) :
                rule.from = id /\ rule.to = {}
          /\ \E k \in 1..(Len(actions) - 1) :
                /\ Occurs(actions, contract.steps, id, k)
                /\ Occurs(actions, contract.steps, id, k + 1)

----------------------------------------------------------------------------
(* Rule lists that are present but empty *)

\* a list that is absent, empty, or the given one
AbsentEmptyOr(l) == {Absent, Some(<<>>), Some(l)}

\* the two-step reduction of the test suite's baseContract, each of its
\* four rule lists absent, empty, or as in baseContract
EmptyListContracts ==
    StablyContract(
        {<<[id |-> "s1", actionType |-> "a"], [id |-> "s2", actionType |-> "b"]>>},
        AbsentEmptyOr(<<[from |-> "s1", to |-> {"s2"}]>>),
        {Absent} \cup {Some(r) : r \in
            [allowedActionTypes : AbsentEmptyOr(<<"a">>),
             requiredSteps : AbsentEmptyOr(<<"s2">>),
             orderConstraints :
                 AbsentEmptyOr(<<[before |-> "s1", after |-> "s2"]>>)]})

\* the member of the family with all four lists as in baseContract
SuppliedBaseContract ==
    CHOOSE c \in EmptyListContracts :
        /\ NonEmptyList(c.transitions)
        /\ NonEmptyList(StructuralRulesOf(c).allowedActionTypes)
        /\ NonEmptyList(StructuralRulesOf(c).requiredSteps)
        /\ NonEmptyList(StructuralRulesOf(c).orderConstraints)

SpecEmptyLists ==
    InitWith(EmptyListContracts) /\ [][ValidatePipeline \/ ValidateAction]_vars

----------------------------------------------------------------------------
(* C23 *)

C23_IsEmptyList(o) == IsPresent(o) /\ Get(o) = <<>>

C23_Drop(o) == IF C23_IsEmptyList(o) THEN Absent ELSE o

\* the contract with every empty rule list taken out
C23_WithoutEmptyLists(c) ==
    [c EXCEPT
       !.transitions = C23_Drop(@),
       !.structural =
           IF IsPresent(@)
           THEN Some([allowedActionTypes |-> C23_Drop(Get(@).allowedActionTypes),
                      requiredSteps |-> C23_Drop(Get(@).requiredSteps),
                      orderConstraints |-> C23_Drop(Get(@).orderConstraints)])
           ELSE @]

\* C23: an allowedActionTypes list that is present but empty imposes no
\* constraint: validatePipeline and validateAction emit no disallowed-type
\* error, as when the field is absent; and a contract with empty
\* allowedActionTypes, requiredSteps, orderConstraints or transitions lists
\* gives the results of the contract with those fields absent.
C23_EmptyListsAsAbsent ==
    /\ IsPresent(pres) =>
          /\ C23_IsEmptyList(StructuralRulesOf(contract).allowedActionTypes)
                => ErrorsOfKind(Get(pres).errors, "disallowedAt") = <<>>
          /\ Get(pres) = validatePipeline(actions, C23_WithoutEmptyLists(contract))
    /\ IsPresent(ares) =>
          /\ C23_IsEmptyList(StructuralRulesOf(contract).allowedActionTypes)
                => ErrorsOfKind(Get(ares).errors, "disallowed") = <<>>
          /\ Get(ares) = validateAction(Get(action), C23_WithoutEmptyLists(contract))

\* all four lists are present and empty, and a pipeline that the lists of
\* baseContract reject in every check is accepted
C23_Witness ==
    /\ IsPresent(pres) /\ Get(pres).ok
    /\ IsPresent(ares) /\ Get(ares).ok
    /\ C23_IsEmptyList(contract.transitions)
    /\ C23_IsEmptyList(StructuralRulesOf(contract).allowedActionTypes)
    /\ C23_IsEmptyList(StructuralRulesOf(contract).requiredSteps)
    /\ C23_IsEmptyList(StructuralRulesOf(contract).orderConstraints)
    /\ ~validatePipeline(actions, SuppliedBaseContract).ok
    /\ Len(validatePipeline(actions, SuppliedBaseContract).errors) >= 3

----------------------------------------------------------------------------
(* Contract fields that are declared in contract.ts and read nowhere in    *)
(* validation.ts: payloadSchemaId, terminal, allowDynamicInsertion,        *)
(* maxDepth                                                                *)

\* steps "s1" for type "a" and "s2" for type "b" with any payloadSchemaId
\* and terminal
StepsWithMetadata ==
    {<<s1, s2>> :
        s1 \in [id : {"s1"}, actionType : {"a"},
                payloadSchemaId : Optional({"schema"}),
                terminal : Optional(BOOLEAN)],
        s2 \in [id : {"s2"}, actionType : {"b"},
                payloadSchemaId : Optional({"schema"}),
                terminal : Optional(BOOLEAN)]}

\* all three lists given, or none of them, with any allowDynamicInsertion
\* and maxDepth
StructuralRulesWithMetadata ==
    [allowedActionTypes : {Some(<<"a">>), Some(<<"a", "b">>)},
     requiredSteps : {Some(<<"s2">>)},
     orderConstraints : {Some(<<[before |-> "s1", after |-> "s2"]>>)},
     allowDynamicInsertion : Optional(BOOLEAN),
     maxDepth : Optional({1})]
    \cup
    [allowedActionTypes : {Absent},
     requiredSteps : {Absent},
     orderConstraints : {Absent},
     allowDynamicInsertion : Optional(BOOLEAN),
     maxDepth : Optional({1})]

MetadataContracts ==
    StablyContract(StepsWithMetadata,
        {Absent, Some(<<[from |-> "s1", to |-> {"s2"}]>>)},
        {Some(r) : r \in StructuralRulesWithMetadata})

SpecMetadata ==
    InitWith(MetadataContracts) /\ [][ValidatePipeline \/ ValidateAction]_vars

----------------------------------------------------------------------------
(* C24 *)

\* the contract with payloadSchemaId, terminal, allowDynamicInsertion and
\* maxDepth left out (undefined) everywhere
C24_WithoutMetadata(c) ==
    [c EXCEPT
       !.steps = [k \in 1..Len(@) |->
                     [@[k] EXCEPT !.payloadSchemaId = Absent, !.terminal = Absent]],
       !.structural = Some([Get(@) EXCEPT !.allowDynamicInsertion = Absent,
                                          !.maxDepth = Absent])]

\* C24: contracts that differ only in structural.allowDynamicInsertion,
\* structural.maxDepth, a step's payloadSchemaId or a step's terminal flag
\* produce identical validatePipeline and validateAction results: each
\* result is that of the contract with these fields left out. In
\* particular a sequence that ends on a step not marked terminal reports no
\* error for that.
C24_InertFields ==
    /\ IsPresent(pres) =>
          Get(pres) = validatePipeline(actions, C24_WithoutMetadata(contract))
    /\ IsPresent(ares) =>
          Get(ares) = validateAction(Get(action), C24_WithoutMetadata(contract))

\* an accepted sequence that ends on a step marked terminal: false, under a
\* contract that forbids dynamic insertion and sets maxDepth, with a schema
\* id on the step of the guarded action
C24_Witness ==
    /\ IsPresent(pres) /\ Get(pres).ok
    /\ IsPresent(ares) /\ Get(ares).ok
    /\ Len(actions) = MaxLen
    /\ NonEmptyList(StructuralRulesOf(contract).requiredSteps)
    /\ StepByActionType(contract.steps, actions[Len(actions)].type)[1].terminal
          = Some(FALSE)
    /\ StepByActionType(contract.steps, Get(action).type)[1].payloadSchemaId
          = Some("schema")
    /\ Get(contract.structural).allowDynamicInsertion = Some(FALSE)
    /\ IsPresent(Get(contract.structural).maxDepth)

----------------------------------------------------------------------------
(* Domain actions: base.ts lets a domain add its own fields to an action   *)

Payloads == {"p", "q"}

\* an action of a domain that carries one field beside the type tag
DomainAction == [type : ActionTypes, payload : Payloads]

DomainPipelineInstance == SeqsUpTo(DomainAction, MaxLen)

InitDomain ==
    /\ contract \in SessionContracts
    /\ actions \in DomainPipelineInstance
    /\ action = Absent
    /\ pres = Absent
    /\ ares = Absent
    /\ rep = Absent
    /\ NoSession

\* const result = validateAction(action, contract), for a domain action
ValidateDomainAction ==
    \E act \in DomainAction :
        /\ action' = Some(act)
        /\ ares' = Some(validateAction(act, contract))
        /\ UNCHANGED <<contract, actions, pres, rep, session>>

SpecDomain == InitDomain /\ [][ValidatePipeline \/ ValidateDomainAction]_vars

----------------------------------------------------------------------------
(* C25 *)

\* the sequences with the types of acts at the same positions
C25_SameTypes(acts) ==
    {other \in [1..Len(acts) -> DomainAction] :
        \A i \in 1..Len(acts) : other[i].type = acts[i].type}

\* C25: payloads are never examined: two sequences with the same types at
\* the same positions and arbitrary different payloads produce identical
\* validatePipeline results, and two actions of one type identical
\* validateAction results.
C25_PayloadsUnexamined ==
    /\ IsPresent(pres) =>
          \A other \in C25_SameTypes(actions) :
              validatePipeline(other, contract) = Get(pres)
    /\ IsPresent(ares) =>
          \A act \in DomainAction :
              act.type = Get(action).type =>
                  validateAction(act, contract) = Get(ares)

\* a rejected sequence of full length whose payloads are not all the same,
\* and a guarded action of either payload
C25_Witness ==
    /\ IsPresent(pres) /\ ~Get(pres).ok
    /\ Len(actions) = MaxLen
    /\ \E i, j \in 1..Len(actions) : actions[i].payload # actions[j].payload
    /\ IsPresent(ares) /\ Get(ares).ok
    /\ Get(action).payload = "q"

----------------------------------------------------------------------------
(* C26 *)

\* no step of the contract declares the type of the action at position i
C26_Unmapped(acts, steps, i) == Declaring(steps, acts[i].type) = {}

\* the contract forbids the transition from the step of the action at
\* position i to the step of the action at position j
C26_Forbidden(acts, c, i, j) ==
    /\ ~C26_Unmapped(acts, c.steps, i)
    /\ ~C26_Unmapped(acts, c.steps, j)
    /\ \E rule \in Range(ListOf(c.transitions)) :
          /\ rule.from = FirstStepId(c.steps, acts[i].type)
          /\ FirstStepId(c.steps, acts[j].type) \notin rule.to

\* C26: an action whose type no step declares interrupts the transition
\* check: the transition errors of the sequence are those of the part
\* before it followed by those of the part after it, so neither pair it
\* forms with its neighbours is reported and its neighbours are not checked
\* against each other; a sequence [a, x, b] with x unmapped reports no
\* transition error even when the contract forbids the transition from a's
\* step to b's step.
C26_UnmappedInterrupts ==
    IsPresent(pres) =>
        /\ \A i \in 1..Len(actions) :
              C26_Unmapped(actions, contract.steps, i) =>
                  ErrorsOfKind(Get(pres).errors, "transition")
                  = CheckTransitions(SubSeq(actions, 1, i - 1), contract)
                    \o CheckTransitions(SubSeq(actions, i + 1, Len(actions)),
                                        contract)
        /\ (Len(actions) = 3 /\ C26_Unmapped(actions, contract.steps, 2)) =>
              ErrorsOfKind(Get(pres).errors, "transition") = <<>>

\* a validated sequence [a, x, b] with x unmapped under a contract that
\* forbids the transition from a's step to b's step
C26_Witness ==
    /\ IsPresent(pres)
    /\ Len(actions) = 3
    /\ C26_Unmapped(actions, contract.steps, 2)
    /\ C26_Forbidden(actions, contract, 1, 3)

----------------------------------------------------------------------------
(* C27 *)

\* a non-empty name for the step whose id is the empty string; no step of
\* the model has this id
C27_Named(id) == IF id = EmptyId THEN "s0" ELSE id

\* the contract with the empty step id given the non-empty name, in steps
\* and in transition rules
C27_Renamed(c) ==
    [c EXCEPT
       !.steps = [k \in 1..Len(@) |-> [@[k] EXCEPT !.id = C27_Named(@)]],
       !.transitions =
           IF IsPresent(@)
           THEN Some([k \in 1..Len(Get(@)) |->
                         [from |-> C27_Named(Get(@)[k].from),
                          to |-> {C27_Named(id) : id \in Get(@)[k].to}]])
           ELSE Absent]

\* C27: the transition check treats every declared step id alike: an
\* action that resolves to a step whose id is the empty string counts as
\* mapped, and its adjacent pairs are checked exactly like pairs of steps
\* with non-empty ids, so giving the empty id a non-empty name changes
\* the transition errors only by that name.
C27_EmptyIdLikeAnyId ==
    IsPresent(pres) =>
        LET reported == ErrorsOfKind(Get(pres).errors, "transition")
            renamed == ErrorsOfKind(
                           validatePipeline(actions, C27_Renamed(contract)).errors,
                           "transition")
        IN  renamed = [k \in 1..Len(reported) |->
                          ErrTransition(C27_Named(reported[k].x),
                                        C27_Named(reported[k].y))]

----------------------------------------------------------------------------
(* C28 *)

\* validatePipeline under contracts that carry a rule of each kind
SpecIndependent == InitWith(MixedContracts) /\ [][ValidatePipeline]_vars

\* the positions of the sequence reported as having a disallowed type
C28_Disallowed(errors) ==
    {e.index + 1 : e \in Range(ErrorsOfKind(errors, "disallowedAt"))}

\* C28: the four checks of validatePipeline are independent of each other's
\* findings: the errors of each check are those the sequence gets under the
\* contract with that check's rule alone, so an action reported as having a
\* disallowed type still counts as an occurrence of the steps declaring its
\* type in the required-steps, order-constraint and transition checks.
C28_IndependentChecks ==
    IsPresent(pres) =>
        LET errors == Get(pres).errors
        IN  /\ ErrorsOfKind(errors, "disallowedAt")
                 = validatePipeline(actions, OnlyAllowed(contract)).errors
            /\ ErrorsOfKind(errors, "required")
                 = validatePipeline(actions, OnlyRequired(contract)).errors
            /\ ErrorsOfKind(errors, "order")
                 = validatePipeline(actions, OnlyOrder(contract)).errors
            /\ ErrorsOfKind(errors, "transition")
                 = validatePipeline(actions, OnlyTransitions(contract)).errors

\* every occurrence of the required step is an action reported as
\* disallowed, the step is not reported missing, and a pair of two
\* disallowed actions is reported as a forbidden transition
C28_Witness ==
    /\ IsPresent(pres)
    /\ \E id \in Range(ListOf(StructuralRulesOf(contract).requiredSteps)) :
          /\ Occurrences(actions, contract.steps, id) # {}
          /\ Occurrences(actions, contract.steps, id)
                \subseteq C28_Disallowed(Get(pres).errors)
    /\ ErrorsOfKind(Get(pres).errors, "required") = <<>>
    /\ \E k \in 1..(Len(actions) - 1) :
          /\ {k, k + 1} \subseteq C28_Disallowed(Get(pres).errors)
          /\ C26_Forbidden(actions, contract, k, k + 1)
    /\ ErrorsOfKind(Get(pres).errors, "transition") # <<>>

----------------------------------------------------------------------------
(* C29 *)

\* both steps of the constraint are declared and every step that declares
\* one of them declares this one action type: before and after are the same
\* id, or two steps that declare the same actionType
C29_OneType(steps, constraint, type) ==
    /\ \E k \in 1..Len(steps) : steps[k].id = constraint.before
    /\ \E k \in 1..Len(steps) : steps[k].id = constraint.after
    /\ \A k \in 1..Len(steps) :
          steps[k].id \in {constraint.before, constraint.after}
              => steps[k].actionType = type

\* the positions of the sequence that hold an action of this type
C29_PositionsOf(acts, type) == {i \in 1..Len(acts) : acts[i].type = type}

\* C29: for an order constraint whose `before` and `after` steps occur at
\* exactly the same indices (the same id, or two steps that declare the same
\* actionType), validatePipeline emits the order-constraint error if and
\* only if that action type occurs at least twice in the sequence; a single
\* occurrence never violates such a constraint.
C29_SameIndices ==
    IsPresent(pres) =>
        \A constraint \in Range(ListOf(StructuralRulesOf(contract).orderConstraints)) :
            /\ Occurrences(actions, contract.steps, constraint.before)
                  = Occurrences(actions, contract.steps, constraint.after)
               => (ErrOrder(constraint.before, constraint.after)
                       \in Range(Get(pres).errors)
                   <=> Cardinality(Occurrences(actions, contract.steps,
                                               constraint.before)) >= 2)
            /\ \A type \in ActionTypes :
                  C29_OneType(contract.steps, constraint, type) =>
                      /\ Occurrences(actions, contract.steps, constraint.before)
                            = C29_PositionsOf(actions, type)
                      /\ Occurrences(actions, contract.steps, constraint.after)
                            = C29_PositionsOf(actions, type)
                      /\ ErrOrder(constraint.before, constraint.after)
                             \in Range(Get(pres).errors)
                         <=> Cardinality(C29_PositionsOf(actions, type)) >= 2

\* two steps of one action type constrain each other: with one occurrence
\* of the type in a longer sequence nothing is reported
C29_Witness ==
    /\ IsPresent(pres)
    /\ Get(pres).ok
    /\ Len(actions) > 1
    /\ \E constraint \in Range(ListOf(StructuralRulesOf(contract).orderConstraints)),
          type \in ActionTypes :
          /\ constraint.before # constraint.after
          /\ C29_OneType(contract.steps, constraint, type)
          /\ Cardinality(C29_PositionsOf(actions, type)) = 1

----------------------------------------------------------------------------
(* C30 *)

\* validatePipeline reported 'Action at index i has disallowed type', i
\* counted from 0
C30_ReportedAt(errors, i) ==
    \E e \in Range(errors) : e.kind = "disallowedAt" /\ e.index = i

\* validateAction reported 'Action has disallowed type'
C30_Reported(errors) == \E e \in Range(errors) : e.kind = "disallowed"

\* C30: the two validators agree on the allowed-type rule: for every
\* contract, sequence and index i, validatePipeline reports 'Action at index
\* i has disallowed type' if and only if validateAction(actions[i],
\* contract) reports 'Action has disallowed type'.
C30_ValidatorsAgree ==
    (IsPresent(pres) /\ IsPresent(ares)) =>
        \A i \in 1..Len(actions) :
            actions[i] = Get(action) =>
                (C30_ReportedAt(Get(pres).errors, i - 1)
                 <=> C30_Reported(Get(ares).errors))

\* the guarded action stands at the last position of a full sequence after
\* another disallowed action, both validators report it, and an action of
\* the other type is reported by neither
C30_Witness ==
    /\ IsPresent(pres) /\ IsPresent(ares)
    /\ Len(actions) = MaxLen
    /\ actions[Len(actions)] = Get(action)
    /\ actions[1] = Get(action)
    /\ C30_ReportedAt(Get(pres).errors, Len(actions) - 1)
    /\ C30_Reported(Get(ares).errors)
    /\ \E i \in 1..Len(actions) :
          /\ actions[i] # Get(action)
          /\ ~C30_ReportedAt(Get(pres).errors, i - 1)

====
